---------------------------- MODULE Spec2Model ----------------------------
(***************************************************************************)
(* qmplot command line driver (src/qmplot/main.py).                        *)
(*                                                                         *)
(* main() is modelled statement by statement: pc names the statement that  *)
(* runs next, data is the pandas DataFrame (a sequence of rows, each row   *)
(* carrying its index label), log is the sequence of externally visible    *)
(* events (backend selection, pyplot import, printed messages, savefig and *)
(* show calls).  manhattanplot() and qqplot() live outside main.py; their  *)
(* layout, top-signal selection and quantile pairing are modelled from the *)
(* written specification.                                                  *)
(*                                                                         *)
(* A table cell is <<>> when pandas reads it as null (NaN) and <<v>> when  *)
(* it holds the value v.  A chromosome label is a sequence of characters,  *)
(* the chromosome column being a text column.  P-values are the integers   *)
(* of PValues, standing for distinct floats in (0, 1] in increasing order. *)
(***************************************************************************)
EXTENDS Integers, Sequences, FiniteSets, TLC

VARIABLES pc, argv, kwargs, table, data, log, err, mplot, qplot, order

vars == <<pc, argv, kwargs, table, data, log, err, mplot, qplot, order>>

-----------------------------------------------------------------------------
(* Bounds and input sets *)

\* most rows of an input file in the runs of main()
MaxRows == 2
\* most records handed to manhattanplot / qqplot when they are checked alone
MaxRecs == 3

\* --ld-block-size default
DefaultLdBlockSize == 500000

NA == <<>>
Some(v) == <<v>>
Val(c) == c[1]
IsNa(c) == c = NA

NoValue == "None"
NoError == "none"

chr1 == <<"c", "h", "r", "1">>
lab1 == <<"1">>
lab2 == <<"2">>

\* labels of the files main() is run on, and of the cleaned records
FileLabels == {chr1, lab2}
CleanLabels == {lab1, lab2}
Positions == {0, 1, 2}
PValues == {1, 2, 3}
TopPValues == {1, 2}
LdBlockSizes == {1, 2}
OutPrefix == "out"

Columns == {"chrom", "pos", "pv", "id"}
RequiredColumns == {"chrom", "pos", "pv"}

\* the rows a file of the main() runs may hold, before pandas labels them
FileRows ==
    [chrom : {Some(l) : l \in FileLabels} \cup {NA},
     pos : {Some(1), NA},
     pv : {Some(1), NA},
     id : {Some("rs1"), NA}]

SeqsUpTo(S, n) == UNION {[1..k -> S] : k \in 0..n}

\* the command lines: --display, --outfiletype, -M, --ld-block-size;
\* an option that is not given is <<>>
ArgvSpace ==
    [display : BOOLEAN,
     outfiletype : {NA, Some("pdf")},
     m_id : {NA, Some("id")},
     ld_block_size : {NA} \cup {Some(w) : w \in LdBlockSizes}]

-----------------------------------------------------------------------------
(* parse_commandline_args *)

ParseArgs(a) ==
    [display |-> a.display,
     outprefix |-> OutPrefix,
     outfiletype |-> IF IsNa(a.outfiletype) THEN "png" ELSE Val(a.outfiletype),
     m_id |-> IF IsNa(a.m_id) THEN NoValue ELSE Val(a.m_id),
     ld_block_size |-> IF IsNa(a.ld_block_size) THEN DefaultLdBlockSize
                       ELSE Val(a.ld_block_size)]

-----------------------------------------------------------------------------
(* pandas operations used by main() *)

\* pd.read_table: the rows of the file, labelled 0, 1, ... (RangeIndex)
ReadTable(rows) ==
    [i \in 1..Len(rows) |->
        [idx |-> i - 1, chrom |-> rows[i].chrom, pos |-> rows[i].pos,
         pv |-> rows[i].pv, id |-> rows[i].id]]

HasNa(row, cols) == \E c \in cols : IsNa(row[c])

\* dropna(how="all"): only the rows null in every column go
DropNaAll(df) == SelectSeq(df, LAMBDA r : \E c \in Columns : ~IsNa(r[c]))

\* dropna(subset=[chrom, pos, pv]): only the required columns count
DropNaRequired(df) == SelectSeq(df, LAMBDA r : ~HasNa(r, RequiredColumns))

\* data.dropna(how="any", axis=0): no subset, so every column counts;
\* the surviving rows keep their index labels
DropNa(df) == SelectSeq(df, LAMBDA r : ~HasNa(r, Columns))

\* str(x) of a cell of a text column: the label itself, "nan" for a null
Str(c) == IF IsNa(c) THEN <<"n", "a", "n">> ELSE Val(c)

\* data[[chrom]] = data[[chrom]].astype(str)
AsTypeStr(df) ==
    [i \in 1..Len(df) |-> [df[i] EXCEPT !.chrom = Some(Str(df[i].chrom))]]

\* Series lookup by index label: data[chrom][label]
HasLabel(df, label) == \E i \in 1..Len(df) : df[i].idx = label
AtLabel(df, label) == df[CHOOSE i \in 1..Len(df) : df[i].idx = label]

\* x.startswith("chr")
StartsWithChr(x) == Len(x) >= 3 /\ SubSeq(x, 1, 3) = <<"c", "h", "r">>

\* x[3:]: empty when x has three characters or fewer
SliceFrom3(x) == IF Len(x) <= 3 THEN <<>> ELSE SubSeq(x, 4, Len(x))

\* lambda x: x[3:], the prefix test left out
StripAlways(x) == SliceFrom3(x)

\* lambda x: x[3:] if x.startswith("chr") else x
StripChr(x) == IF StartsWithChr(x) THEN SliceFrom3(x) ELSE x

\* data[chrom] = data[chrom].map(...)
MapChrom(df) ==
    [i \in 1..Len(df) |-> [df[i] EXCEPT !.chrom = Some(StripChr(Val(df[i].chrom)))]]


-----------------------------------------------------------------------------
(* manhattanplot: chromosome layout (specification, section 4.1) *)

RECURSIVE SetMax(_)
SetMax(S) ==
    IF S = {} THEN 0
    ELSE LET x == CHOOSE y \in S : TRUE
             m == SetMax(S \ {x})
         IN  IF x > m THEN x ELSE m

\* width of a chromosome group: its largest position; zero without records
ChromWidth(df, label) ==
    SetMax({Val(df[i].pos) : i \in {j \in 1..Len(df) : Val(df[j].chrom) = label}})

\* cumulative width of the first k chromosomes of the display order
RECURSIVE CumWidth(_, _, _)
CumWidth(df, ord, k) ==
    IF k = 0 THEN 0
    ELSE CumWidth(df, ord, k - 1) + ChromWidth(df, ord[k])

OrderIndex(ord, label) == CHOOSE k \in 1..Len(ord) : ord[k] = label

\* the cumulative width up to and including the chromosome itself
ChromOffsetInclusive(df, ord, label) == CumWidth(df, ord, OrderIndex(ord, label))

\* x-offset of a chromosome: the cumulative width of all preceding ones
ChromOffset(df, ord, label) == CumWidth(df, ord, OrderIndex(ord, label) - 1)

\* natural order of the labels: sorted as strings
Alphabet == <<"1", "2", "X", "a", "c", "h", "n", "r">>
CharRank(c) == CHOOSE k \in 1..Len(Alphabet) : Alphabet[k] = c

RECURSIVE LexLess(_, _)
LexLess(a, b) ==
    IF a = <<>> THEN b # <<>>
    ELSE IF b = <<>> THEN FALSE
    ELSE IF a[1] = b[1] THEN LexLess(Tail(a), Tail(b))
    ELSE CharRank(a[1]) < CharRank(b[1])

RECURSIVE SortedLabels(_)
SortedLabels(S) ==
    IF S = {} THEN <<>>
    ELSE LET m == CHOOSE x \in S : \A y \in S \ {x} : LexLess(x, y)
         IN  <<m>> \o SortedLabels(S \ {m})

\* the display order: the caller's when one is supplied (listing every label
\* of the data), else the labels of the data in natural order
DisplayOrder(df, ord) ==
    IF IsNa(ord) THEN SortedLabels({Val(df[i].chrom) : i \in 1..Len(df)})
    ELSE Val(ord)

\* one entry per record: its global x-coordinate = offset + position
ChromosomeLayout(df, ord) ==
    [i \in 1..Len(df) |->
        LET off == ChromOffset(df, ord, Val(df[i].chrom))
        IN  [idx |-> df[i].idx, chrom |-> Val(df[i].chrom),
             offset |-> off, x |-> off + Val(df[i].pos)]]

-----------------------------------------------------------------------------
(* manhattanplot: top-signal window selection (specification, section 4.2) *)

\* consecutive fixed-size half-open windows [k*w, (k+1)*w) of one chromosome
Window(row, w) == Val(row.pos) \div w

SameWindow(r, s, w) == r.chrom = s.chrom /\ Window(r, w) = Window(s, w)

\* the record of minimum p-value of its window, the first in input order on a tie
IsWindowTop(df, i, w) ==
    \A j \in 1..Len(df) :
        SameWindow(df[i], df[j], w) =>
            \/ Val(df[j].pv) > Val(df[i].pv)
            \/ (Val(df[j].pv) = Val(df[i].pv) /\ j >= i)

WindowTops(df, w) ==
    LET keep == {i \in 1..Len(df) : IsWindowTop(df, i, w)}
        F[k \in 0..Len(df)] ==
            IF k = 0 THEN <<>>
            ELSE IF k \in keep THEN Append(F[k - 1], df[k]) ELSE F[k - 1]
    IN  F[Len(df)]

\* of the per-window minima, those whose annotation id is not null
TopSignals(df, w) == SelectSeq(WindowTops(df, w), LAMBDA r : ~IsNa(r.id))

-----------------------------------------------------------------------------
(* qqplot: quantile pairing (specification, section 4.3) *)

RECURSIVE InsertSorted(_, _)
InsertSorted(s, v) ==
    IF s = <<>> THEN <<v>>
    ELSE IF v < Head(s) THEN <<v>> \o s
    ELSE <<Head(s)>> \o InsertSorted(Tail(s), v)

RECURSIVE SortAscending(_)
SortAscending(s) ==
    IF s = <<>> THEN <<>>
    ELSE InsertSorted(SortAscending(SubSeq(s, 1, Len(s) - 1)), s[Len(s)])

\* pair i is (expected, observed) = (-log10(i / (n + 1)), -log10(p_(i)));
\* -log10 is kept symbolic: expected is the fraction <<i, n + 1>>, observed is p_(i)
QQPairs(pvalues) ==
    LET sorted == SortAscending(pvalues)
        n == Len(sorted)
    IN  [i \in 1..n |-> [expected |-> <<i, n + 1>>, observed |-> sorted[i]]]

-----------------------------------------------------------------------------
(* the two library calls of main() *)

\* the call with ld_block_size left to its default
ManhattanPlotCallDefaultBlock(kw, df) ==
    [data |-> df,
     snp |-> kw.m_id,
     is_annotate_topsnp |-> kw.m_id # NoValue,
     ld_block_size |-> DefaultLdBlockSize]

\* keyword arguments of the manhattanplot(...) call
ManhattanPlotCall(kw, df) ==
    [data |-> df,
     snp |-> kw.m_id,
     is_annotate_topsnp |-> kw.m_id # NoValue,
     ld_block_size |-> kw.ld_block_size]

ManhattanPlot(call, ord) ==
    [called |-> TRUE,
     data |-> call.data,
     snp |-> call.snp,
     selected |-> call.is_annotate_topsnp,
     window |-> call.ld_block_size,
     xs |-> ChromosomeLayout(call.data, DisplayOrder(call.data, ord)),
     top |-> IF call.is_annotate_topsnp
             THEN TopSignals(call.data, call.ld_block_size)
             ELSE <<>>]

\* data[kwargs.pos]: the position column passed for the p-values
QQPlotCallPos(kw, df) == [i \in 1..Len(df) |-> [idx |-> df[i].idx, pv |-> df[i].pos]]

\* data[kwargs.pv]: the p-value column, a Series keeping the index labels
QQPlotCall(kw, df) == [i \in 1..Len(df) |-> [idx |-> df[i].idx, pv |-> df[i].pv]]

QQPlot(series) ==
    [called |-> TRUE,
     input |-> series,
     pairs |-> QQPairs([i \in 1..Len(series) |-> Val(series[i].pv)])]

NoManhattan ==
    [called |-> FALSE, data |-> <<>>, snp |-> NoValue, selected |-> FALSE,
     window |-> 0, xs |-> <<>>, top |-> <<>>]

NoQQ == [called |-> FALSE, input |-> <<>>, pairs |-> <<>>]

-----------------------------------------------------------------------------
(* events of a run *)

UseAgg == <<"use", <<"agg">>>>
ImportPyplot == <<"import", <<"pyplot">>>>
PrintWarning == <<"print", <<"[WARNING] chr">>>>
PrintDone == <<"print", <<"done">>>>
ShowEvent == <<"show", <<>>>>
SaveFig(name) == <<"savefig", name>>

\* the Q-Q plot saved under the Manhattan plot's name
QQFileCopied(kw) == <<kw.outprefix, ".manhattan.", kw.outfiletype>>

\* kwargs.outprefix + ".manhattan." + kwargs.outfiletype, kept as its three parts
ManhattanFile(kw) == <<kw.outprefix, ".manhattan.", kw.outfiletype>>
QQFile(kw) == <<kw.outprefix, ".QQ.", kw.outfiletype>>

-----------------------------------------------------------------------------
(* main() *)

Init ==
    /\ pc = "backend"
    /\ argv \in ArgvSpace
    /\ kwargs = ParseArgs(argv)
    /\ table \in SeqsUpTo(FileRows, MaxRows)
    /\ data = <<>>
    /\ log = <<>>
    /\ err = NoError
    /\ mplot = NoManhattan
    /\ qplot = NoQQ
    /\ order = NA

\* lines 53-56: matplotlib.use("agg") unless --display
BackendEvents(kw) == IF ~kw.display THEN <<UseAgg>> ELSE <<>>

SelectBackend ==
    /\ pc = "backend"
    /\ log' = log \o BackendEvents(kwargs)
    /\ pc' = "import"
    /\ UNCHANGED <<argv, kwargs, table, data, err, mplot, qplot, order>>

\* line 58
ImportPlt ==
    /\ pc = "import"
    /\ log' = Append(log, ImportPyplot)
    /\ pc' = "read"
    /\ UNCHANGED <<argv, kwargs, table, data, err, mplot, qplot, order>>

\* line 61
LoadData ==
    /\ pc = "read"
    /\ data' = ReadTable(table)
    /\ pc' = "dropna"
    /\ UNCHANGED <<argv, kwargs, table, log, err, mplot, qplot, order>>

\* line 62
CleanData ==
    /\ pc = "dropna"
    /\ data' = DropNa(data)
    /\ pc' = "astype"
    /\ UNCHANGED <<argv, kwargs, table, log, err, mplot, qplot, order>>

\* line 63
ChromToStr ==
    /\ pc = "astype"
    /\ data' = AsTypeStr(data)
    /\ pc' = "check"
    /\ UNCHANGED <<argv, kwargs, table, log, err, mplot, qplot, order>>

\* lines 65-70: data[chrom][0] is a lookup by index label; KeyError without label 0
PrefixEvents(df) ==
    IF StartsWithChr(Val(AtLabel(df, 0).chrom)) THEN <<PrintWarning>> ELSE <<>>

CheckPrefix ==
    /\ pc = "check"
    /\ IF HasLabel(data, 0)
       THEN /\ log' = log \o PrefixEvents(data)
            /\ pc' = "map"
            /\ err' = err
       ELSE /\ err' = "KeyError"
            /\ pc' = "error"
            /\ log' = log
    /\ UNCHANGED <<argv, kwargs, table, data, mplot, qplot, order>>

\* line 72
NormalizeChrom ==
    /\ pc = "map"
    /\ data' = MapChrom(data)
    /\ pc' = "manhattan"
    /\ UNCHANGED <<argv, kwargs, table, log, err, mplot, qplot, order>>

\* lines 87-108
Manhattan ==
    /\ pc = "manhattan"
    /\ mplot' = ManhattanPlot(ManhattanPlotCall(kwargs, data), order)
    /\ pc' = "save_m"
    /\ UNCHANGED <<argv, kwargs, table, data, log, err, qplot, order>>

\* plt.show() called whether or not --display is given
SaveEventsAlwaysShow(kw, name) == <<SaveFig(name), ShowEvent>>

\* lines 110-112 and 123-125: plt.savefig(...), then plt.show() under --display
SaveEvents(kw, name) ==
    <<SaveFig(name)>> \o (IF kw.display THEN <<ShowEvent>> ELSE <<>>)

SaveManhattan ==
    /\ pc = "save_m"
    /\ log' = log \o SaveEvents(kwargs, ManhattanFile(kwargs))
    /\ pc' = "qq"
    /\ UNCHANGED <<argv, kwargs, table, data, err, mplot, qplot, order>>

\* lines 115-121
QQ ==
    /\ pc = "qq"
    /\ qplot' = QQPlot(QQPlotCall(kwargs, data))
    /\ pc' = "save_q"
    /\ UNCHANGED <<argv, kwargs, table, data, log, err, mplot, order>>

SaveQQ ==
    /\ pc = "save_q"
    /\ log' = log \o SaveEvents(kwargs, QQFile(kwargs))
    /\ pc' = "print"
    /\ UNCHANGED <<argv, kwargs, table, data, err, mplot, qplot, order>>

\* line 127
Finish ==
    /\ pc = "print"
    /\ log' = Append(log, PrintDone)
    /\ pc' = "done"
    /\ UNCHANGED <<argv, kwargs, table, data, err, mplot, qplot, order>>

Next ==
    \/ SelectBackend
    \/ ImportPlt
    \/ LoadData
    \/ CleanData
    \/ ChromToStr
    \/ CheckPrefix
    \/ NormalizeChrom
    \/ Manhattan
    \/ SaveManhattan
    \/ QQ
    \/ SaveQQ
    \/ Finish

Spec == Init /\ [][Next]_vars

-----------------------------------------------------------------------------
(* manhattanplot and qqplot on their own: the records handed over by main()  *)
(* are drawn from bounded sets, main() standing at the call.                 *)

CleanRows(labels, positions, pvalues) ==
    [chrom : {Some(l) : l \in labels},
     pos : {Some(x) : x \in positions},
     pv : {Some(p) : p \in pvalues},
     id : {Some("rs1")}]

SeqPermutations(s) ==
    {[i \in 1..Len(s) |-> s[f[i]]] : f \in Permutations(1..Len(s))}

InitCall(at, events) ==
    /\ pc = at
    /\ kwargs = ParseArgs(argv)
    /\ log = events
    /\ err = NoError
    /\ qplot = NoQQ

\* top-signal selection: every -M / --ld-block-size choice, no display order given
InitTop ==
    /\ argv \in [display : {FALSE}, outfiletype : {NA},
                 m_id : {NA, Some("id")},
                 ld_block_size : {NA} \cup {Some(w) : w \in LdBlockSizes}]
    /\ table \in SeqsUpTo(CleanRows(CleanLabels, Positions, TopPValues), MaxRecs)
    /\ data = ReadTable(table)
    /\ order = NA
    /\ mplot = NoManhattan
    /\ InitCall("manhattan", <<UseAgg, ImportPyplot>>)

SpecTop == InitTop /\ [][Manhattan]_vars

\* chromosome layout: every display order of the labels, one of them ("X")
\* never carrying a record
InitLayout ==
    /\ argv = [display |-> FALSE, outfiletype |-> NA, m_id |-> NA,
               ld_block_size |-> NA]
    /\ table \in SeqsUpTo(CleanRows(CleanLabels, Positions, {1}), MaxRecs)
    /\ data = ReadTable(table)
    /\ order \in {Some(o) : o \in SeqPermutations(<<lab1, lab2, <<"X">>>>)}
    /\ mplot = NoManhattan
    /\ InitCall("manhattan", <<UseAgg, ImportPyplot>>)

SpecLayout == InitLayout /\ [][Manhattan]_vars

\* quantile pairing: the rows of a table in every row order
InitQQ ==
    /\ argv = [display |-> FALSE, outfiletype |-> NA, m_id |-> NA,
               ld_block_size |-> NA]
    /\ table \in SeqsUpTo(CleanRows({lab1}, {0}, PValues), MaxRecs)
    /\ data \in SeqPermutations(ReadTable(table))
    /\ order = NA
    /\ pc = "qq"
    /\ kwargs = ParseArgs(argv)
    /\ mplot = ManhattanPlot(ManhattanPlotCall(kwargs, data), order)
    /\ log = <<UseAgg, ImportPyplot>> \o SaveEvents(kwargs, ManhattanFile(kwargs))
    /\ err = NoError
    /\ qplot = NoQQ

SpecQQ == InitQQ /\ [][QQ]_vars

-----------------------------------------------------------------------------
(* Properties of main() *)

Range(f) == {f[i] : i \in DOMAIN f}
Labels(df) == {df[i].idx : i \in 1..Len(df)}

\* the row of the input file that pandas labels k
FileRow(k) == table[k + 1]
Complete(row) == \A c \in Columns : row[c] # NA
FileIndex == 0..(Len(table) - 1)

LoadedAndCleaned == pc \notin {"backend", "import", "read", "dropna"}

SavedFiles ==
    LET saves == SelectSeq(log, LAMBDA e : e[1] = "savefig")
    IN  [i \in 1..Len(saves) |-> saves[i][2]]

PlotEvents == SelectSeq(log, LAMBDA e : e[1] \in {"savefig", "show"})

GivenFileType == IF argv.outfiletype = NA THEN "png" ELSE argv.outfiletype[1]

ExpectedFiles ==
    << <<OutPrefix, ".manhattan.", GivenFileType>>,
       <<OutPrefix, ".QQ.", GivenFileType>> >>

IsPrefixOf(s, t) == Len(s) <= Len(t) /\ s = SubSeq(t, 1, Len(s))

\* C1: a run that completes has written exactly the two files
\* <prefix>.manhattan.<ext> and <prefix>.QQ.<ext> (ext "png" by default), the
\* Manhattan file first; nothing else is ever written, and the final message
\* is printed only after both files were written.
C1_TwoFilesThenDone ==
    /\ IsPrefixOf(SavedFiles, ExpectedFiles)
    /\ pc = "done" => SavedFiles = ExpectedFiles
    /\ \A i \in 1..Len(log) :
          log[i] = PrintDone =>
              /\ i = Len(log)
              /\ SavedFiles = ExpectedFiles

C1_Witness ==
    /\ pc = "done"
    /\ argv.outfiletype = NA
    /\ log[Len(log)] = PrintDone
    /\ Len(SavedFiles) = 2

\* C2: once the null rows are removed (before the chromosome labels are
\* normalized and before either plot), no row of the file with a null in the
\* chromosome, position or p-value column is in the data, nor in what
\* manhattanplot and qqplot receive.
C2_RequiredNullsDropped ==
    LET bad == {k \in FileIndex : \E c \in RequiredColumns : FileRow(k)[c] = NA}
    IN  /\ LoadedAndCleaned => Labels(data) \cap bad = {}
        /\ mplot.called => Labels(mplot.data) \cap bad = {}
        /\ qplot.called => Labels(qplot.input) \cap bad = {}

C2_Witness ==
    /\ pc = "done"
    /\ \E k \in FileIndex :
          /\ FileRow(k).pv = NA
          /\ FileRow(k).id # NA
    /\ Len(mplot.data) = 1
    /\ Len(qplot.input) = 1

HasChrPrefix(x) == Len(x) >= 3 /\ x[1] = "c" /\ x[2] = "h" /\ x[3] = "r"
DropThree(x) == [i \in 1..(Len(x) - 3) |-> x[i + 3]]

\* every row handed to manhattanplot carries the loaded label without its
\* first three characters when that label starts with "chr", else unchanged
StrippedPerRow ==
    \A i \in 1..Len(mplot.data) :
        LET loaded == FileRow(mplot.data[i].idx).chrom[1]
        IN  mplot.data[i].chrom =
                <<IF HasChrPrefix(loaded) THEN DropThree(loaded) ELSE loaded>>

\* C3 as stated: the labels are stripped row by row and no message is emitted.
C3_SilentStrip ==
    mplot.called => (StrippedPerRow /\ PrintWarning \notin Range(log))

\* C3 amended: the labels are stripped row by row, independently of the other
\* rows; a [WARNING] message is printed, once, exactly when the label at index
\* label 0 starts with "chr".
C3_StripWithWarning ==
    mplot.called =>
        /\ StrippedPerRow
        /\ Cardinality({i \in 1..Len(log) : log[i] = PrintWarning}) =
               (IF HasChrPrefix(FileRow(0).chrom[1]) THEN 1 ELSE 0)

C3_Witness ==
    /\ mplot.called
    /\ Len(mplot.data) = 2
    /\ FileRow(0).chrom = <<lab2>>
    /\ FileRow(1).chrom = <<chr1>>
    /\ mplot.data[2].chrom = <<lab1>>
    /\ PrintWarning \notin Range(log)

\* C4: when every row of the file has a null (a header-only file included),
\* main() raises no error.
C4_EmptyInputNoError ==
    (\A k \in FileIndex : ~Complete(FileRow(k))) => err = NoError

\* C9: when at least one row of the file is complete, main() raises no error,
\* whichever rows were removed.
C9_CompleteRowNoError ==
    (\E k \in FileIndex : Complete(FileRow(k))) => err = NoError

\* C8: without --display "agg" is selected before pyplot is imported and show
\* is never called; with --display no backend is forced and the plot calls are
\* savefig Manhattan, show, savefig Q-Q, show, in this order.
C8_DisplayToggle ==
    LET shown == <<SaveFig(ExpectedFiles[1]), ShowEvent,
                   SaveFig(ExpectedFiles[2]), ShowEvent>>
    IN  IF argv.display
        THEN /\ UseAgg \notin Range(log)
             /\ IsPrefixOf(PlotEvents, shown)
             /\ pc = "done" => PlotEvents = shown
        ELSE /\ ShowEvent \notin Range(log)
             /\ pc # "backend" => UseAgg \in Range(log)
             /\ \A i \in 1..Len(log) :
                   log[i] = ImportPyplot => \E j \in 1..(i - 1) : log[j] = UseAgg

C8_Witness ==
    /\ pc = "done"
    /\ argv.display
    /\ Len(PlotEvents) = 4

\* C10: every row handed to manhattanplot and to qqplot is a row of the file
\* with no null in any column, the annotation column included, and every
\* retained per-window minimum has an annotation id.
C10_AllColumnsNonNull ==
    LET bad == {k \in FileIndex : ~Complete(FileRow(k))}
    IN  /\ mplot.called =>
              /\ Labels(mplot.data) \cap bad = {}
              /\ \A i \in 1..Len(mplot.data) : Complete(mplot.data[i])
              /\ \A i \in 1..Len(mplot.top) : mplot.top[i].id # NA
        /\ qplot.called => Labels(qplot.input) \cap bad = {}

C10_Witness ==
    /\ pc = "done"
    /\ Len(table) = 2
    /\ FileRow(1).id = NA
    /\ \A c \in RequiredColumns : FileRow(1)[c] # NA
    /\ Labels(mplot.data) = {0}
    /\ Labels(qplot.input) = {0}
    /\ mplot.selected

-----------------------------------------------------------------------------
(* Properties of the top-signal selection (under SpecTop) *)

GivenWindow ==
    IF argv.ld_block_size = NA THEN DefaultLdBlockSize ELSE argv.ld_block_size[1]

\* rows r and s lie on one chromosome, in one window of GivenWindow positions
InOneWindow(r, s) ==
    /\ r.chrom = s.chrom
    /\ \E k \in 0..SetMax(Positions) :
          /\ k * GivenWindow <= r.pos[1] /\ r.pos[1] < (k + 1) * GivenWindow
          /\ k * GivenWindow <= s.pos[1] /\ s.pos[1] < (k + 1) * GivenWindow

\* C5: the selection runs exactly when -M is given, with the --ld-block-size
\* value (default 500000) as window size; every retained record has the
\* minimum p-value of its window and is the first such record in input order,
\* every window holding a record has a retained one, and no two retained
\* records share chromosome and window.
C5_TopSignalPerWindow ==
    mplot.called =>
        /\ mplot.selected <=> (argv.m_id # NA)
        /\ mplot.window = GivenWindow
        /\ ~mplot.selected => mplot.top = <<>>
        /\ mplot.selected =>
              /\ \A a \in 1..Len(mplot.top) :
                    /\ \E i \in 1..Len(data) : data[i] = mplot.top[a]
                    /\ \A j \in 1..Len(data) :
                          InOneWindow(data[j], mplot.top[a]) =>
                              \/ data[j].pv[1] > mplot.top[a].pv[1]
                              \/ /\ data[j].pv[1] = mplot.top[a].pv[1]
                                 /\ data[j].idx >= mplot.top[a].idx
              /\ \A j \in 1..Len(data) :
                    \E a \in 1..Len(mplot.top) : InOneWindow(data[j], mplot.top[a])
              /\ \A a, b \in 1..Len(mplot.top) :
                    a # b => ~InOneWindow(mplot.top[a], mplot.top[b])

\* two windows on one chromosome, the first holding two records of equal p-value
C5_Witness ==
    /\ mplot.called
    /\ mplot.selected
    /\ mplot.window = 2
    /\ Len(data) = 3
    /\ data[1].chrom = data[2].chrom /\ data[2].chrom = data[3].chrom
    /\ data[1].pos = <<1>> /\ data[2].pos = <<0>> /\ data[3].pos = <<2>>
    /\ data[1].pv = data[2].pv
    /\ Labels(mplot.top) = {0, 2}

-----------------------------------------------------------------------------
(* Properties of the chromosome layout (under SpecLayout) *)

RecordsOf(label) == {i \in 1..Len(data) : data[i].chrom = <<label>>}
GivenOrder == order[1]
Before(a, b) ==
    \E k, l \in 1..Len(GivenOrder) : k < l /\ GivenOrder[k] = a /\ GivenOrder[l] = b

\* a and b carry records and no chromosome between them in display order does
NextWithRecords(a, b) ==
    /\ RecordsOf(a) # {} /\ RecordsOf(b) # {}
    /\ Before(a, b)
    /\ \A c \in Range(GivenOrder) : (Before(a, c) /\ Before(c, b)) => RecordsOf(c) = {}

\* w is the width of the group of label a: its largest position
IsWidth(a, w) ==
    /\ \E i \in RecordsOf(a) : data[i].pos[1] = w
    /\ \A i \in RecordsOf(a) : data[i].pos[1] <= w

\* C6: every record's x is its position plus its chromosome's offset; the
\* first chromosome carrying records has offset 0, the offset of the next
\* chromosome carrying records is the previous offset plus the previous width
\* (chromosomes without records add nothing), and the x-ranges follow the
\* display order without overlapping.
C6_LayoutMonotonic ==
    mplot.called =>
        /\ Len(mplot.xs) = Len(data)
        /\ \A i \in 1..Len(data) :
              /\ mplot.xs[i].idx = data[i].idx
              /\ mplot.xs[i].x = mplot.xs[i].offset + data[i].pos[1]
              /\ (\A c \in Range(GivenOrder) : Before(c, data[i].chrom[1]) => RecordsOf(c) = {})
                    => mplot.xs[i].offset = 0
        /\ \A i, j \in 1..Len(data) :
              /\ data[i].chrom = data[j].chrom => mplot.xs[i].offset = mplot.xs[j].offset
              /\ NextWithRecords(data[i].chrom[1], data[j].chrom[1]) =>
                    \E w \in Positions :
                        /\ IsWidth(data[i].chrom[1], w)
                        /\ mplot.xs[j].offset = mplot.xs[i].offset + w
              /\ Before(data[i].chrom[1], data[j].chrom[1]) =>
                    mplot.xs[i].x <= mplot.xs[j].x

\* "2" is displayed before "1" and both carry records; "X" carries none
C6_Witness ==
    /\ mplot.called
    /\ GivenOrder = <<lab2, <<"X">>, lab1>>
    /\ Len(data) = 3
    /\ data[1].chrom = <<lab1>> /\ data[2].chrom = <<lab2>> /\ data[3].chrom = <<lab2>>
    /\ data[2].pos = <<2>> /\ data[3].pos = <<1>> /\ data[1].pos = <<1>>
    /\ mplot.xs[1].x = 3

-----------------------------------------------------------------------------
(* Properties of the quantile pairing (under SpecQQ) *)

FilePValues == [k \in 1..Len(table) |-> table[k].pv[1]]

\* v is the i-th smallest of the values of s
IsIthSmallest(s, i, v) ==
    /\ \E k \in 1..Len(s) : s[k] = v
    /\ Cardinality({k \in 1..Len(s) : s[k] < v}) < i
    /\ i <= Cardinality({k \in 1..Len(s) : s[k] <= v})

\* C7: whatever the order of the rows, the pairing returns n pairs in rank
\* order, the pair at rank i combining the i-th smallest p-value of the file
\* with the expected quantile i / (n + 1); without p-values it returns the
\* empty sequence and no error is raised.
C7_QQOrderInvariant ==
    qplot.called =>
        LET n == Len(table)
        IN  /\ Len(qplot.pairs) = n
            /\ \A i \in 1..n :
                  /\ qplot.pairs[i].expected = <<i, n + 1>>
                  /\ IsIthSmallest(FilePValues, i, qplot.pairs[i].observed)
            /\ n = 0 => qplot.pairs = <<>>
            /\ err = NoError

\* the rows reach qqplot in another order than the file's, largest p-value first
C7_Witness ==
    /\ qplot.called
    /\ Len(table) = 3
    /\ FilePValues = <<2, 1, 3>>
    /\ qplot.input[1].pv = <<3>>
    /\ qplot.pairs[1].observed = 1
    /\ qplot.pairs[3].observed = 3

=============================================================================
